---- MODULE Spec2Model ----
(***************************************************************************)
(* ValidatorService (crates/common/validator/src/validator.rs): the slot   *)
(* and epoch clock of start(), the validator registry refreshed by         *)
(* fetch_validator_indicies() and the duty caches filled by fetch_duties(). *)
(* One action is the code between two await points of the service.         *)
(***************************************************************************)
EXTENDS Integers, Sequences, FiniteSets, TLC

\* ------------------------------------------------------------------ bounds
\* network_spec().seconds_per_slot and SLOTS_PER_EPOCH, scaled down.
SecondsPerSlot == 3
SlotsPerEpoch == 2
\* Latest start of the service and end of the observed time, in seconds
\* since genesis.
MaxStart == 4
MaxTime == 15
\* Number of configured keystores, length of an API validator list, length
\* of a duty list, largest epoch handed to fetch_duties.
MaxValidators == 2
MaxListLen == 2
MaxDuties == 2
MaxEpochArg == 1

\* ------------------------------------------------------------------- data
ConfigKeys == {"k1", "k2"}
\* Public keys the beacon node may report; "k3" is nobody's keystore.
Keys == ConfigKeys \cup {"k3"}
Indices == {1, 2}

SeqsUpTo(S, n) == UNION {[1..m -> S] : m \in 0..n}

\* Option<usize> of Iterator::find: 0 is None.
None == 0

VARIABLES
    now,                          \* SystemTime::now() - genesis_instant, seconds
    pc,                           \* await point the service is parked at
    elapsed, slot, epoch,         \* locals of start()
    deadline,                     \* next deadline of `interval`, seconds since genesis
    validators,                   \* self.validators, by public key
    active_validator_count,
    public_key_to_index,
    validator_index_to_keystore,  \* index -> position of the keystore in validators
    proposer_duties, attester_duties, sync_committee_duties,
    request,                      \* the beacon API request awaited
    fd_epoch, validator_indices,  \* locals of fetch_duties()
    trace,                        \* functions entered and warnings logged by the
                                  \* current tick handler or call
    missed,                       \* whole periods the last tick fired after its deadline
    last_response,                \* response handled by the last registry refresh
    repeated,                     \* it equalled the response of the refresh before
    tasks                         \* the executor futures borrowing &self

clock == <<elapsed, slot, epoch, deadline>>
registry == <<active_validator_count, public_key_to_index, validator_index_to_keystore>>
duties == <<proposer_duties, attester_duties, sync_committee_duties>>
fd_locals == <<fd_epoch, validator_indices>>
history == <<last_response, repeated>>
service == <<now, pc, clock, validators, registry, duties, request, fd_locals, trace,
             missed, history>>
vars == <<service, tasks>>

\* ------------------------------------------------------- beacon API boundary
NoRequest == [op |-> "none", filter |-> <<>>, epoch |-> 0, indices |-> {}]
Request(op, filter, e, indices) ==
    [op |-> op, filter |-> filter, epoch |-> e, indices |-> indices]

\* Result<_, _> of an API call: Err or Ok(data).
Err == [ok |-> FALSE, data |-> <<>>]
Ok(data) == [ok |-> TRUE, data |-> data]

ValidatorData == [index : Indices, public_key : Keys]
ValidatorListResponses == {Err} \cup {Ok(d) : d \in SeqsUpTo(ValidatorData, MaxListLen)}
\* A proposer duty is identified by its validator_index; 3 is an index the
\* service never owns.
ProposerDutyResponses == {Err} \cup {Ok(d) : d \in SeqsUpTo(Indices \cup {3}, MaxDuties)}
\* Attester and sync-committee duty lists are stored as received: two lists
\* that differ from each other and from the empty cache.
DutyResponses == {Err, Ok(<<>>), Ok(<<1>>), Ok(<<2>>)}
\* Validator lists of one entry, enough to resolve any set of indices call
\* by call.
SingleValidatorResponses == {Err} \cup {Ok(<<d>>) : d \in ValidatorData}

NoResponse == [ok |-> FALSE, data |-> <<"none">>]

\* Executor futures that may be alive at once.
Tasks == {"t1", "t2"}
\* An executor future: its method, the await it is parked at, its
\* validator_index or validator_indices argument, the shape of the produced
\* block, the signers whose sign() fails, the signing and API steps it has
\* started in order, the step that failed, its Result and the payload it
\* published. slot, committee_index and attestation_data decide no branch
\* and are left out.
Idle ==
    [op |-> "none", pc |-> "idle", index |-> 0, indices |-> <<>>, shape |-> "none",
     bad |-> {}, events |-> <<>>, failed |-> "none", result |-> "none", payload |-> <<>>]

\* ---------------------------------------------------------------- helpers
compute_epoch_at_slot(s) == s \div SlotsPerEpoch

\* HashMap::insert
MapInsert(map, k, v) == [x \in DOMAIN map \cup {k} |-> IF x = k THEN v ELSE map[x]]
EmptyMap == [x \in {} |-> 0]
Values(map) == {map[k] : k \in DOMAIN map}

\* self.validators.iter().find(|keystore| keystore.public_key == public_key)
FindKeystore(vals, public_key) ==
    IF \E i \in 1..Len(vals) : vals[i] = public_key
    THEN CHOOSE i \in 1..Len(vals) :
             /\ vals[i] = public_key
             /\ \A j \in 1..(i - 1) : vals[j] # public_key
    ELSE None

Registry(count, pk2idx, idx2ks) ==
    [active_validator_count |-> count,
     public_key_to_index |-> pk2idx,
     validator_index_to_keystore |-> idx2ks]

\* The closure with HashMap::insert in place of the vacant-entry check.
InsertValidatorOverwrite(vals, reg, validator_data) ==
    LET keystore == FindKeystore(vals, validator_data.public_key)
    IN  Registry(
            reg.active_validator_count + 1,
            MapInsert(reg.public_key_to_index, validator_data.public_key,
                      validator_data.index),
            IF keystore # None
            THEN MapInsert(reg.validator_index_to_keystore, validator_data.index, keystore)
            ELSE reg.validator_index_to_keystore)

\* The closure with `active_validator_count += 1` after the vacant-entry block.
InsertValidatorCountAlways(vals, reg, validator_data) ==
    IF validator_data.public_key \notin DOMAIN reg.public_key_to_index
    THEN LET keystore == FindKeystore(vals, validator_data.public_key)
         IN  Registry(
                 reg.active_validator_count + 1,
                 MapInsert(reg.public_key_to_index, validator_data.public_key,
                           validator_data.index),
                 IF keystore # None
                 THEN MapInsert(reg.validator_index_to_keystore, validator_data.index,
                                keystore)
                 ELSE reg.validator_index_to_keystore)
    ELSE Registry(reg.active_validator_count + 1, reg.public_key_to_index,
                  reg.validator_index_to_keystore)

\* The closure with the reverse insert before the vacant-entry check.
InsertValidatorReverseAlways(vals, reg, validator_data) ==
    LET keystore == FindKeystore(vals, validator_data.public_key)
        idx2ks == IF keystore # None
                  THEN MapInsert(reg.validator_index_to_keystore, validator_data.index,
                                 keystore)
                  ELSE reg.validator_index_to_keystore
    IN  IF validator_data.public_key \notin DOMAIN reg.public_key_to_index
        THEN Registry(
                 reg.active_validator_count + 1,
                 MapInsert(reg.public_key_to_index, validator_data.public_key,
                           validator_data.index),
                 idx2ks)
        ELSE Registry(reg.active_validator_count, reg.public_key_to_index, idx2ks)

\* Body of the for_each closure: one validator_data of the response.
InsertValidator(vals, reg, validator_data) ==
    IF validator_data.public_key \notin DOMAIN reg.public_key_to_index
    THEN LET keystore == FindKeystore(vals, validator_data.public_key)
         IN  Registry(
                 reg.active_validator_count + 1,
                 MapInsert(reg.public_key_to_index, validator_data.public_key,
                           validator_data.index),
                 IF keystore # None
                 THEN MapInsert(reg.validator_index_to_keystore, validator_data.index,
                                keystore)
                 ELSE reg.validator_index_to_keystore)
    ELSE reg

RECURSIVE InsertAll(_, _, _)
InsertAll(vals, reg, data) ==
    IF data = <<>> THEN reg
    ELSE InsertAll(vals, InsertValidator(vals, reg, Head(data)), Tail(data))

\* A failed call handled by starting the registry over.
ApplyValidatorListResetOnErr(vals, reg, response) ==
    IF response.ok THEN InsertAll(vals, reg, response.data)
    ELSE Registry(0, EmptyMap, EmptyMap)

\* `if let Ok(validator_infos) = validator_states { ... }`
ApplyValidatorList(vals, reg, response) ==
    IF response.ok THEN InsertAll(vals, reg, response.data) ELSE reg

\* A filter of the unresolved public keys only.
ValidatorFilterUnresolved(vals, pk2idx) ==
    SelectSeq(vals, LAMBDA public_key : public_key \notin DOMAIN pk2idx)

\* The filter handed to get_state_validator_list.
ValidatorFilter(vals, pk2idx) == vals

\* ------------------------------------------------------------------- Init
Init ==
    /\ now \in 0..MaxStart
    /\ pc = "new"
    /\ elapsed = 0 /\ slot = 0 /\ epoch = 0 /\ deadline = 0
    /\ validators \in SeqsUpTo(ConfigKeys, MaxValidators)
    /\ active_validator_count = 0
    /\ public_key_to_index = EmptyMap
    /\ validator_index_to_keystore = EmptyMap
    /\ proposer_duties = <<>> /\ attester_duties = <<>> /\ sync_committee_duties = <<>>
    /\ request = NoRequest
    /\ fd_epoch = 0 /\ validator_indices = {}
    /\ trace = <<>>
    /\ missed = 0
    /\ last_response = NoResponse
    /\ repeated = FALSE
    /\ tasks = [t \in Tasks |-> Idle]

\* ------------------------------------------------------------ clock loop
\* MissedTickBehavior::Skip: a late tick is followed by the next multiple of
\* the period after `at`.
NextTimeoutSkip(timeout, at, period) ==
    IF at > timeout THEN at + period - ((at - timeout) % period) ELSE timeout + period

\* MissedTickBehavior::Burst: the deadline after a tick that fired at `at`
\* for the deadline `timeout` is one period after that deadline, late or not.
NextTimeout(timeout, at, period) == timeout + period

\* The slot recomputed from the clock instead of counted.
SlotFromClock(s) == now \div SecondsPerSlot

\* `slot += 1`
SlotAfterTick(s) == s + 1

\* start(): SystemTime::now() - genesis, the slot and epoch derived from it,
\* and interval_at(interval_start, seconds_per_slot), whose first deadline
\* is interval_start itself.
Start ==
    /\ pc = "new"
    /\ elapsed' = now
    /\ slot' = now \div SecondsPerSlot
    /\ epoch' = compute_epoch_at_slot(slot')
    /\ deadline' = now - (now - slot' * SecondsPerSlot)
    /\ pc' = "tick"
    /\ trace' = <<>>
    /\ UNCHANGED <<tasks, now, validators, registry, duties, request, fd_locals, missed,
                   history>>

\* Time passes while the service is parked at an await point of the loop.
Tock ==
    /\ pc \in {"tick", "on_epoch.validators"}
    /\ now < MaxTime
    /\ now' = now + 1
    /\ UNCHANGED <<tasks, pc, clock, validators, registry, duties, request, fd_locals, trace,
                   missed, history>>

\* `_ = interval.tick() => { ... }` up to the first await of on_epoch, or to
\* the end of the handler when nothing is awaited.
Tick ==
    /\ pc = "tick"
    /\ deadline <= now
    /\ deadline' = NextTimeout(deadline, now, SecondsPerSlot)
    /\ missed' = (now - deadline) \div SecondsPerSlot
    /\ slot' = SlotAfterTick(slot)
    /\ LET current_epoch == compute_epoch_at_slot(slot')
       IN  IF current_epoch # epoch
           THEN /\ epoch' = current_epoch
                /\ IF active_validator_count < Len(validators)
                   THEN /\ request' = Request("get_state_validator_list",
                                              ValidatorFilter(validators,
                                                              public_key_to_index),
                                              0, {})
                        /\ trace' = <<"on_epoch", "fetch_validator_indicies">>
                        /\ pc' = "on_epoch.validators"
                   ELSE /\ request' = NoRequest
                        /\ trace' = <<"on_epoch", "fetch_validator_indicies", "on_slot">>
                        /\ pc' = "tick"
           ELSE /\ epoch' = epoch
                /\ request' = NoRequest
                /\ trace' = <<"on_slot">>
                /\ pc' = "tick"
    /\ UNCHANGED <<tasks, now, elapsed, validators, registry, duties, fd_locals, history>>

\* ------------------------------------------------------- registry refresh
\* An owner of the service calls fetch_validator_indicies() before start().
CallFetchValidatorIndicies ==
    /\ pc = "new"
    /\ active_validator_count < Len(validators)
    /\ request' = Request("get_state_validator_list",
                          ValidatorFilter(validators, public_key_to_index), 0, {})
    /\ pc' = "validators"
    /\ trace' = <<"fetch_validator_indicies">>
    /\ UNCHANGED <<tasks, now, clock, validators, registry, duties, fd_locals, missed, history>>

\* get_state_validator_list(...).await returns `response`; the rest of
\* fetch_validator_indicies, and of the tick handler when on_epoch called it.
ValidatorListResponse(response) ==
    /\ pc \in {"validators", "on_epoch.validators"}
    /\ LET reg == ApplyValidatorList(
                      validators,
                      Registry(active_validator_count, public_key_to_index,
                               validator_index_to_keystore),
                      response)
       IN  /\ active_validator_count' = reg.active_validator_count
           /\ public_key_to_index' = reg.public_key_to_index
           /\ validator_index_to_keystore' = reg.validator_index_to_keystore
    /\ request' = NoRequest
    /\ last_response' = response
    /\ repeated' = (response = last_response)
    /\ IF pc = "on_epoch.validators"
       THEN trace' = Append(trace, "on_slot") /\ pc' = "tick"
       ELSE trace' = trace /\ pc' = "new"
    /\ UNCHANGED <<tasks, now, clock, validators, duties, fd_locals, missed>>

\* ------------------------------------------------------------ duty fetch
\* fetch_duties(e) without the is_empty() return.
CallFetchDutiesNoReturn(e) ==
    /\ pc = "new"
    /\ fd_epoch' = e
    /\ validator_indices' = Values(public_key_to_index)
    /\ request' = Request("get_proposer_duties", <<>>, e, {})
    /\ trace' = <<"fetch_duties", "fetch_proposer_duties">>
    /\ pc' = "proposer"
    /\ UNCHANGED <<tasks, now, clock, validators, registry, duties, missed, history>>

\* fetch_duties(e) up to its first await.
CallFetchDuties(e) ==
    /\ pc = "new"
    /\ LET indices == Values(public_key_to_index)
       IN  IF indices = {}
           THEN /\ request' = NoRequest
                /\ trace' = <<"fetch_duties", "warn: skipping duty fetch">>
                /\ pc' = "new"
                /\ UNCHANGED fd_locals
           ELSE /\ fd_epoch' = e
                /\ validator_indices' = indices
                /\ request' = Request("get_proposer_duties", <<>>, e, {})
                /\ trace' = <<"fetch_duties", "fetch_proposer_duties">>
                /\ pc' = "proposer"
    /\ UNCHANGED <<tasks, now, clock, validators, registry, duties, missed, history>>

\* `Err(err) => { error!("Failed to fetch ... duties ...") }`
Logged(tr, response, line) == IF response.ok THEN tr ELSE Append(tr, line)

\* The attester fetch for the epoch passed in.
AttesterEpochSame(e) == e

\* `self.fetch_attester_duties(epoch + 1, ...)`
AttesterEpoch(e) == e + 1

\* The proposer response stored as received.
ProposerDutiesResponseUnfiltered(response) ==
    /\ pc = "proposer"
    /\ proposer_duties' = IF response.ok THEN response.data ELSE proposer_duties
    /\ request' = Request("get_attester_duties", <<>>, AttesterEpoch(fd_epoch),
                          validator_indices)
    /\ trace' = Append(Logged(trace, response, "error: proposer duties"),
                       "fetch_attester_duties")
    /\ pc' = "attester"
    /\ UNCHANGED <<tasks, now, clock, validators, registry, attester_duties,
                   sync_committee_duties, fd_locals, missed, history>>

\* get_proposer_duties(epoch).await returns; fetch_attester_duties is entered.
ProposerDutiesResponse(response) ==
    /\ pc = "proposer"
    /\ proposer_duties' =
           IF response.ok
           THEN SelectSeq(response.data, LAMBDA duty : duty \in validator_indices)
           ELSE proposer_duties
    /\ request' = Request("get_attester_duties", <<>>, AttesterEpoch(fd_epoch),
                          validator_indices)
    /\ trace' = Append(Logged(trace, response, "error: proposer duties"),
                       "fetch_attester_duties")
    /\ pc' = "attester"
    /\ UNCHANGED <<tasks, now, clock, validators, registry, attester_duties,
                   sync_committee_duties, fd_locals, missed, history>>

\* The attester fetch with its error returned to the caller of fetch_duties.
AttesterDutiesResponseAbort(response) ==
    /\ pc = "attester"
    /\ attester_duties' = IF response.ok THEN response.data ELSE attester_duties
    /\ IF response.ok
       THEN /\ request' = Request("get_sync_committee_duties", <<>>, fd_epoch,
                                  validator_indices)
            /\ trace' = Append(trace, "fetch_sync_committee_duties")
            /\ pc' = "sync_committee"
            /\ UNCHANGED fd_locals
       ELSE /\ request' = NoRequest
            /\ trace' = Append(trace, "error: attester duties")
            /\ pc' = "new"
            /\ fd_epoch' = 0 /\ validator_indices' = {}
    /\ UNCHANGED <<tasks, now, clock, validators, registry, proposer_duties,
                   sync_committee_duties, missed, history>>

\* get_attester_duties(...).await returns; fetch_sync_committee_duties is entered.
AttesterDutiesResponse(response) ==
    /\ pc = "attester"
    /\ attester_duties' = IF response.ok THEN response.data ELSE attester_duties
    /\ request' = Request("get_sync_committee_duties", <<>>, fd_epoch, validator_indices)
    /\ trace' = Append(Logged(trace, response, "error: attester duties"),
                       "fetch_sync_committee_duties")
    /\ pc' = "sync_committee"
    /\ UNCHANGED <<tasks, now, clock, validators, registry, proposer_duties,
                   sync_committee_duties, fd_locals, missed, history>>

\* get_sync_committee_duties(...).await returns; fetch_duties returns.
SyncCommitteeDutiesResponse(response) ==
    /\ pc = "sync_committee"
    /\ sync_committee_duties' =
           IF response.ok THEN response.data ELSE sync_committee_duties
    /\ request' = NoRequest
    /\ fd_epoch' = 0 /\ validator_indices' = {}
    /\ pc' = "new"
    /\ trace' = Logged(trace, response, "error: sync committee duties")
    /\ UNCHANGED <<tasks, now, clock, validators, registry, proposer_duties, attester_duties,
                   missed, history>>

\* -------------------------------------------------------------- executors
\* The future goes on to its next await, having started `steps`.
Step(task, steps, await) ==
    [task EXCEPT !.events = @ \o steps, !.pc = await, !.result = "pending"]
\* `?` on the Err of `step`: the future returns Err.
Fail(task, steps, step) ==
    [task EXCEPT !.events = @ \o steps, !.pc = "done", !.failed = step, !.result = "err"]
\* The future returns Ok(()).
Succeed(task) == [task EXCEPT !.pc = "done", !.result = "ok"]

Last(seq) == seq[Len(seq)]

\* Every block published through publish_block.
PublishEndpointFull(shape) == "publish_block"

\* The arms of `match block_response.data`.
PublishEndpoint(shape) ==
    IF shape = "full" THEN "publish_block" ELSE "publish_blinded_block"
SignBlock(shape) ==
    IF shape = "full" THEN "sign_beacon_block" ELSE "sign_blinded_beacon_block"

\* propose_block taking the keystore out of the map: remove() for get().
ProposeBlockTakesKeystore(t, validator_index, randao_ok) ==
    /\ pc = "new"
    /\ tasks[t] = Idle
    /\ LET task == [Idle EXCEPT !.op = "propose_block", !.index = validator_index]
       IN  tasks' = [tasks EXCEPT ![t] =
               IF validator_index \notin DOMAIN validator_index_to_keystore
               THEN Fail(task, <<>>, "keystore")
               ELSE IF ~randao_ok
               THEN Fail(task, <<"sign_randao_reveal">>, "sign_randao_reveal")
               ELSE Step(task, <<"sign_randao_reveal", "produce_block">>,
                         "produce_block")]
    /\ validator_index_to_keystore' =
           [i \in DOMAIN validator_index_to_keystore \ {validator_index} |->
               validator_index_to_keystore[i]]
    /\ UNCHANGED <<now, pc, clock, validators, active_validator_count,
                   public_key_to_index, duties, request, fd_locals, trace, missed,
                   history>>

\* propose_block(slot, validator_index) up to produce_block(...).await.
ProposeBlock(t, validator_index, randao_ok) ==
    /\ pc = "new"
    /\ tasks[t] = Idle
    /\ LET task == [Idle EXCEPT !.op = "propose_block", !.index = validator_index]
       IN  tasks' = [tasks EXCEPT ![t] =
               IF validator_index \notin DOMAIN validator_index_to_keystore
               THEN Fail(task, <<>>, "keystore")
               ELSE IF ~randao_ok
               THEN Fail(task, <<"sign_randao_reveal">>, "sign_randao_reveal")
               ELSE Step(task, <<"sign_randao_reveal", "produce_block">>,
                         "produce_block")]
    /\ UNCHANGED service

\* produce_block(...).await returns an error, a full or a blinded block; the
\* block is signed and its publish call awaited.
ProduceBlockResponse(t, response, sign_ok) ==
    /\ tasks[t].pc = "produce_block"
    /\ LET task == tasks[t]
           shaped == [task EXCEPT !.shape = response]
       IN  tasks' = [tasks EXCEPT ![t] =
               IF response = "err"
               THEN Fail(task, <<>>, "produce_block")
               ELSE IF ~sign_ok
               THEN Fail(shaped, <<SignBlock(response)>>, SignBlock(response))
               ELSE Step(shaped, <<SignBlock(response), PublishEndpoint(response)>>,
                         "publish")]
    /\ UNCHANGED service

\* The result of the publish call dropped: `call.await; Ok(())`.
PublishResponseSwallow(t, ok) ==
    /\ tasks[t].pc = "publish"
    /\ tasks' = [tasks EXCEPT ![t] =
           IF ok THEN Succeed(tasks[t])
           ELSE [Succeed(tasks[t]) EXCEPT !.failed = Last(tasks[t].events)]]
    /\ UNCHANGED service

\* The publish or submit call of an executor returns: `Ok(call.await?)`.
PublishResponse(t, ok) ==
    /\ tasks[t].pc = "publish"
    /\ tasks' = [tasks EXCEPT ![t] =
           IF ok THEN Succeed(tasks[t])
           ELSE Fail(tasks[t], <<>>, Last(tasks[t].events))]
    /\ UNCHANGED service

\* make_attestation without the let-else on the keystore lookup.
MakeAttestationNoLookup(t, validator_index) ==
    /\ pc = "new"
    /\ tasks[t] = Idle
    /\ tasks' = [tasks EXCEPT ![t] =
           Step([Idle EXCEPT !.op = "make_attestation", !.index = validator_index],
                <<"get_attestation_data">>, "attestation_data")]
    /\ UNCHANGED service

\* make_attestation(slot, validator_index, committee_index) up to
\* get_attestation_data(...).await.
MakeAttestation(t, validator_index) ==
    /\ pc = "new"
    /\ tasks[t] = Idle
    /\ LET task == [Idle EXCEPT !.op = "make_attestation", !.index = validator_index]
       IN  tasks' = [tasks EXCEPT ![t] =
               IF validator_index \notin DOMAIN validator_index_to_keystore
               THEN Fail(task, <<>>, "keystore")
               ELSE Step(task, <<"get_attestation_data">>, "attestation_data")]
    /\ UNCHANGED service

\* get_attestation_data(...).await returns; the data is signed and
\* submit_attestation awaited.
AttestationDataResponse(t, ok, sign_ok) ==
    /\ tasks[t].pc = "attestation_data"
    /\ tasks' = [tasks EXCEPT ![t] =
           IF ~ok
           THEN Fail(tasks[t], <<>>, "get_attestation_data")
           ELSE IF ~sign_ok
           THEN Fail(tasks[t], <<"sign_attestation_data">>, "sign_attestation_data")
           ELSE Step(tasks[t], <<"sign_attestation_data", "submit_attestation">>,
                     "publish")]
    /\ UNCHANGED service

\* submit_aggregate_and_proof(attestation_data, slot, committee_index,
\* aggregator_index) up to get_aggregated_attestation(...).await.
SubmitAggregateAndProof(t, aggregator_index) ==
    /\ pc = "new"
    /\ tasks[t] = Idle
    /\ LET task == [Idle EXCEPT !.op = "submit_aggregate_and_proof",
                                !.index = aggregator_index]
       IN  tasks' = [tasks EXCEPT ![t] =
               IF aggregator_index \notin DOMAIN validator_index_to_keystore
               THEN Fail(task, <<>>, "keystore")
               ELSE Step(task, <<"get_aggregated_attestation">>,
                         "aggregated_attestation")]
    /\ UNCHANGED service

\* The selection proof computed before the `?` on the aggregate.
AggregatedAttestationResponseProofFirst(t, ok, proof_ok, sign_ok) ==
    /\ tasks[t].pc = "aggregated_attestation"
    /\ tasks' = [tasks EXCEPT ![t] =
           IF ~ok
           THEN Fail(tasks[t], <<"get_selection_proof">>, "get_aggregated_attestation")
           ELSE IF ~proof_ok
           THEN Fail(tasks[t], <<"get_selection_proof">>, "get_selection_proof")
           ELSE IF ~sign_ok
           THEN Fail(tasks[t], <<"get_selection_proof", "sign_aggregate_and_proof">>,
                     "sign_aggregate_and_proof")
           ELSE Step(tasks[t],
                     <<"get_selection_proof", "sign_aggregate_and_proof",
                       "publish_aggregate_and_proofs">>,
                     "publish")]
    /\ UNCHANGED service

\* get_aggregated_attestation(...).await returns; the selection proof is
\* computed, the AggregateAndProof signed and its publish call awaited.
AggregatedAttestationResponse(t, ok, proof_ok, sign_ok) ==
    /\ tasks[t].pc = "aggregated_attestation"
    /\ tasks' = [tasks EXCEPT ![t] =
           IF ~ok
           THEN Fail(tasks[t], <<>>, "get_aggregated_attestation")
           ELSE IF ~proof_ok
           THEN Fail(tasks[t], <<"get_selection_proof">>, "get_selection_proof")
           ELSE IF ~sign_ok
           THEN Fail(tasks[t], <<"get_selection_proof", "sign_aggregate_and_proof">>,
                     "sign_aggregate_and_proof")
           ELSE Step(tasks[t],
                     <<"get_selection_proof", "sign_aggregate_and_proof",
                       "publish_aggregate_and_proofs">>,
                     "publish")]
    /\ UNCHANGED service

\* submit_sync_committee(slot, validator_indices) up to get_block_root(...).await.
SubmitSyncCommittee(t, indices) ==
    /\ pc = "new"
    /\ tasks[t] = Idle
    /\ tasks' = [tasks EXCEPT ![t] =
           Step([Idle EXCEPT !.op = "submit_sync_committee", !.indices = indices],
                <<"get_block_root">>, "block_root")]
    /\ UNCHANGED service

\* The filter_map with a failed signature dropped like a missing keystore.
RECURSIVE SignAllDropFailed(_, _, _)
SignAllDropFailed(indices, idx2ks, bad) ==
    IF indices = <<>>
    THEN [ok |-> TRUE, payload |-> <<>>, signs |-> <<>>]
    ELSE LET rest == SignAllDropFailed(Tail(indices), idx2ks, bad)
         IN  IF Head(indices) \notin DOMAIN idx2ks
             THEN rest
             ELSE [ok |-> TRUE,
                   payload |-> IF Head(indices) \in bad THEN rest.payload
                               ELSE <<Head(indices)>> \o rest.payload,
                   signs |-> <<"sign">> \o rest.signs]

\* The filter_map with a missing keystore turned into an error.
RECURSIVE SignAllStrict(_, _, _)
SignAllStrict(indices, idx2ks, bad) ==
    IF indices = <<>>
    THEN [ok |-> TRUE, payload |-> <<>>, signs |-> <<>>]
    ELSE IF Head(indices) \notin DOMAIN idx2ks
    THEN [ok |-> FALSE, payload |-> <<>>, signs |-> <<>>]
    ELSE IF Head(indices) \in bad
    THEN [ok |-> FALSE, payload |-> <<>>, signs |-> <<"sign">>]
    ELSE LET rest == SignAllStrict(Tail(indices), idx2ks, bad)
         IN  [ok |-> rest.ok,
              payload |-> IF rest.ok THEN <<Head(indices)>> \o rest.payload ELSE <<>>,
              signs |-> <<"sign">> \o rest.signs]

\* validator_indices.iter().filter_map(...).collect::<Result<Vec<_>, _>>():
\* an index without keystore is skipped, the others are signed in order up
\* to the first signer of `bad`, whose error ends the collection.
RECURSIVE SignAll(_, _, _)
SignAll(indices, idx2ks, bad) ==
    IF indices = <<>>
    THEN [ok |-> TRUE, payload |-> <<>>, signs |-> <<>>]
    ELSE IF Head(indices) \notin DOMAIN idx2ks
    THEN SignAll(Tail(indices), idx2ks, bad)
    ELSE IF Head(indices) \in bad
    THEN [ok |-> FALSE, payload |-> <<>>, signs |-> <<"sign">>]
    ELSE LET rest == SignAll(Tail(indices), idx2ks, bad)
         IN  [ok |-> rest.ok,
              payload |-> IF rest.ok THEN <<Head(indices)>> \o rest.payload ELSE <<>>,
              signs |-> <<"sign">> \o rest.signs]

\* get_block_root(...).await returns; the batch is signed by the keystores,
\* those of the indices in `bad` failing, and its publish call awaited.
BlockRootResponse(t, ok, bad) ==
    /\ tasks[t].pc = "block_root"
    /\ LET task == tasks[t]
           signed == SignAll(task.indices, validator_index_to_keystore, bad)
       IN  tasks' = [tasks EXCEPT ![t] =
               IF ~ok
               THEN Fail(task, <<>>, "get_block_root")
               ELSE IF ~signed.ok
               THEN Fail([task EXCEPT !.bad = bad], signed.signs, "sign")
               ELSE Step([task EXCEPT !.bad = bad, !.payload = signed.payload],
                         signed.signs \o <<"publish_sync_committee_signature">>,
                         "publish")]
    /\ UNCHANGED service

\* The caller takes the Result; the future and its borrow are gone.
Return(t) ==
    /\ tasks[t].pc = "done"
    /\ tasks' = [tasks EXCEPT ![t] = Idle]
    /\ UNCHANGED service

\* The service as the binary runs it: new(), then start() and its loop.
Next ==
    \/ Start
    \/ Tock
    \/ Tick
    \/ \E response \in ValidatorListResponses : ValidatorListResponse(response)

Spec == Init /\ [][Next]_vars

\* The public refresh methods called on a service that is not started.
NextCalls ==
    \/ CallFetchValidatorIndicies
    \/ \E response \in SingleValidatorResponses : ValidatorListResponse(response)
    \/ \E e \in 0..MaxEpochArg : CallFetchDuties(e)
    \/ \E response \in ProposerDutyResponses : ProposerDutiesResponse(response)
    \/ \E response \in DutyResponses : AttesterDutiesResponse(response)
    \/ \E response \in DutyResponses : SyncCommitteeDutiesResponse(response)

\* No clock is read before start().
\* The service holds two keystores.
InitCalls == Init /\ now = 0 /\ validators = <<"k1", "k2">>

SpecCalls == InitCalls /\ [][NextCalls]_vars

\* Validator lists that resolve index 1 to the first keystore, index 2 to
\* the second, both, or index 1 to a key that is nobody's keystore.
ExecValidatorResponses ==
    {Err,
     Ok(<<[index |-> 1, public_key |-> "k1"]>>),
     Ok(<<[index |-> 2, public_key |-> "k2"]>>),
     Ok(<<[index |-> 1, public_key |-> "k1"], [index |-> 2, public_key |-> "k2"]>>),
     Ok(<<[index |-> 1, public_key |-> "k3"]>>)}
\* validator_index arguments: 3 is never resolved.
ExecIndices == {1, 3}
BlockResponses == {"err", "full", "blinded"}
\* validator_indices arguments: empty, unresolved only, the resolved around
\* an unresolved one, out of index order, one index twice.
SyncInputs == {<<>>, <<3>>, <<1, 3, 2>>, <<2, 1>>, <<1, 1>>}

\* No executor future borrows the service: &mut self methods can be called.
AllIdle == \A t \in Tasks : tasks[t] = Idle

\* The executors called, also concurrently, on a service that is not
\* started, between calls of fetch_validator_indicies.
NextExec ==
    \/ AllIdle /\ CallFetchValidatorIndicies
    \/ \E response \in ExecValidatorResponses : ValidatorListResponse(response)
    \/ \E t \in Tasks, i \in ExecIndices, ok \in BOOLEAN : ProposeBlock(t, i, ok)
    \/ \E t \in Tasks, r \in BlockResponses, ok \in BOOLEAN : ProduceBlockResponse(t, r, ok)
    \/ \E t \in Tasks, i \in ExecIndices : MakeAttestation(t, i)
    \/ \E t \in Tasks, ok, sign_ok \in BOOLEAN : AttestationDataResponse(t, ok, sign_ok)
    \/ \E t \in Tasks, i \in ExecIndices : SubmitAggregateAndProof(t, i)
    \/ \E t \in Tasks, ok, proof_ok, sign_ok \in BOOLEAN :
           AggregatedAttestationResponse(t, ok, proof_ok, sign_ok)
    \/ \E t \in Tasks, indices \in SyncInputs : SubmitSyncCommittee(t, indices)
    \/ \E t \in Tasks, ok \in BOOLEAN, bad \in SUBSET Indices :
           BlockRootResponse(t, ok, bad)
    \/ \E t \in Tasks, ok \in BOOLEAN : PublishResponse(t, ok)
    \/ \E t \in Tasks : Return(t)

SpecExec == InitCalls /\ [][NextExec]_vars

\* ------------------------------------------------------------------ claims
Started == pc # "new"
AwaitingValidators == pc \in {"validators", "on_epoch.validators"}
ListRequested == request.op = "get_state_validator_list"
\* A registry refresh received its response in this step.
Refreshed == AwaitingValidators /\ ~AwaitingValidators'
\* Position of event `e` in the trace, 0 when absent.
Pos(e) == IF \E i \in DOMAIN trace : trace[i] = e
          THEN CHOOSE i \in DOMAIN trace : trace[i] = e
          ELSE 0

\* C1: a service started mid-slot, e seconds after genesis, has slot
\* floor(e / seconds_per_slot) and does no slot += 1 before the rest of the
\* slot, seconds_per_slot - (e mod seconds_per_slot) seconds, has passed.
C1_FirstTickAfterPartialInterval ==
    (/\ Started
     /\ elapsed % SecondsPerSlot # 0
     /\ now < elapsed + (SecondsPerSlot - (elapsed % SecondsPerSlot)))
        => slot = elapsed \div SecondsPerSlot

\* C2: a tick handler that saw the epoch change has entered
\* fetch_validator_indicies, then fetch_duties, then on_slot by the time it
\* is done.
C2_EpochWorkBeforeSlotWork ==
    (pc = "tick" /\ Pos("on_epoch") # 0)
        => /\ Pos("fetch_validator_indicies") # 0
           /\ Pos("fetch_validator_indicies") < Pos("fetch_duties")
           /\ Pos("fetch_duties") < Pos("on_slot")

\* C3 as stated: a tick that fires when two or more deadlines have passed
\* is the only catch-up tick, the next deadline lies in the future.
C3_MissedTicksCoalesced ==
    [][(Tick /\ now >= deadline + SecondsPerSlot) => deadline' > now]_vars

\* C3 as amended: missed ticks are kept, not coalesced. Every tick consumes
\* exactly one slot boundary, so the deadline is always the boundary of the
\* counted slot, and once the loop has caught up it has ticked once per
\* boundary reached.
C3_MissedTicksBurst ==
    Started =>
        /\ deadline = slot * SecondsPerSlot
        /\ (pc = "tick" /\ deadline > now) => slot = now \div SecondsPerSlot + 1

\* A tick fired at least one whole period late and the next one is already
\* due: the backlog is being replayed.
C3_Witness == pc = "tick" /\ missed >= 1 /\ deadline <= now

\* C4: slot and epoch never decrease, a tick adds exactly 1 to slot, and
\* after every step of the started service epoch = floor(slot / slots_per_epoch).
C4_SlotEpoch ==
    [][/\ slot' >= slot
       /\ epoch' >= epoch
       /\ Tick => slot' = slot + 1
       /\ Started' => epoch' = slot' \div SlotsPerEpoch]_vars

\* Two epochs after the start, past an epoch-transition tick.
C4_Witness ==
    /\ pc = "tick"
    /\ Pos("on_epoch") # 0
    /\ epoch >= elapsed \div (SecondsPerSlot * SlotsPerEpoch) + 2

\* C5 as stated: every public key in the filter of a pending
\* get_state_validator_list request has no key-to-index entry.
C5_OnlyUnresolvedQueried ==
    ListRequested =>
        \A i \in DOMAIN request.filter :
            request.filter[i] \notin DOMAIN public_key_to_index

\* C5 as amended: a request is pending only while active_validator_count is
\* below the number of configured identities, and its filter is the public
\* keys of all configured identities, resolved or not.
C5_AllConfiguredQueried ==
    /\ ListRequested =>
           /\ active_validator_count < Len(validators)
           /\ request.filter = validators
    /\ active_validator_count >= Len(validators) => request = NoRequest

\* A request whose filter names a key that is already resolved.
C5_Witness ==
    /\ ListRequested
    /\ \E i \in DOMAIN request.filter : request.filter[i] \in DOMAIN public_key_to_index

\* C6: a refresh that receives the response the refresh before it received
\* leaves the three registry fields as they were.
C6_RefreshIdempotent ==
    [][(Refreshed /\ last_response' = last_response) => registry' = registry]_vars

\* The same non-empty validator list was handled twice in a row.
C6_Witness ==
    /\ repeated
    /\ last_response.ok
    /\ last_response.data # <<>>
    /\ public_key_to_index # EmptyMap

\* C7: active_validator_count never decreases and a key-to-index entry is
\* never removed or changed.
C7_RegistryMonotonic ==
    [][/\ active_validator_count' >= active_validator_count
       /\ \A k \in DOMAIN public_key_to_index :
              /\ k \in DOMAIN public_key_to_index'
              /\ public_key_to_index'[k] = public_key_to_index[k]]_vars

\* The last response reported an index for a key that is resolved to
\* another index.
C7_Witness ==
    /\ last_response.ok
    /\ \E i \in DOMAIN last_response.data :
           LET d == last_response.data[i]
           IN  /\ d.public_key \in DOMAIN public_key_to_index
               /\ public_key_to_index[d.public_key] # d.index

\* C8: every index -> keystore entry has the key -> index entry of that
\* keystore's public key, with the same index.
C8_ReverseHasForward ==
    \A i \in DOMAIN validator_index_to_keystore :
        LET public_key == validators[validator_index_to_keystore[i]]
        IN  /\ public_key \in DOMAIN public_key_to_index
            /\ public_key_to_index[public_key] = i

\* Two keys are resolved and one of them has no reverse entry.
C8_Witness ==
    /\ validator_index_to_keystore # EmptyMap
    /\ Cardinality(DOMAIN public_key_to_index) >
           Cardinality(DOMAIN validator_index_to_keystore)

\* C9: a refresh of the clock loop whose call fails leaves the registry as
\* it was and goes on to on_slot and the next tick; the next tick that
\* changes the epoch issues the request again.
C9_FailedRefreshRetried ==
    [][/\ (pc = "on_epoch.validators" /\ Refreshed /\ last_response' = Err)
              => /\ registry' = registry
                 /\ pc' = "tick"
                 /\ trace' = Append(trace, "on_slot")
       /\ (pc = "tick" /\ last_response = Err /\ epoch' # epoch)
              => /\ pc' = "on_epoch.validators"
                 /\ ListRequested']_vars

\* The request is pending again, one epoch after a refresh failed with part
\* of the registry resolved.
C9_Witness ==
    /\ pc = "on_epoch.validators"
    /\ last_response = Err
    /\ ListRequested
    /\ public_key_to_index # EmptyMap

\* C10: while no validator index is resolved, no step of the service issues
\* a duty request or changes a duty cache; fetch_duties returns at once.
C10_NoDutyFetchWithoutValidators ==
    [][(pc = "new" /\ Values(public_key_to_index) = {})
           => /\ pc' \in {"new", "validators"}
              /\ request'.op \in {"none", "get_state_validator_list"}
              /\ duties' = duties]_vars

\* fetch_duties has returned with its warning and nothing resolved.
C10_Witness ==
    /\ pc = "new"
    /\ trace = <<"fetch_duties", "warn: skipping duty fetch">>
    /\ public_key_to_index = EmptyMap
    /\ request = NoRequest

\* C11: each duty fetch of fetch_duties handles its own failure. An Err
\* leaves the cache of its kind as it was, no response changes a cache of
\* another kind, and after the proposer and the attester response the next
\* fetch is issued whatever the response was.
C11_FetchesFailIndependently ==
    [][/\ \A r \in ProposerDutyResponses :
              ProposerDutiesResponse(r) =>
                  /\ ~r.ok => proposer_duties' = proposer_duties
                  /\ UNCHANGED <<attester_duties, sync_committee_duties>>
                  /\ request'.op = "get_attester_duties"
       /\ \A r \in DutyResponses :
              AttesterDutiesResponse(r) =>
                  /\ ~r.ok => attester_duties' = attester_duties
                  /\ r.ok => attester_duties' = r.data
                  /\ UNCHANGED <<proposer_duties, sync_committee_duties>>
                  /\ request'.op = "get_sync_committee_duties"
       /\ \A r \in DutyResponses :
              SyncCommitteeDutiesResponse(r) =>
                  /\ ~r.ok => sync_committee_duties' = sync_committee_duties
                  /\ r.ok => sync_committee_duties' = r.data
                  /\ UNCHANGED <<proposer_duties, attester_duties>>]_vars

\* fetch_duties has returned after its attester fetch alone failed, on a
\* cache that was not empty, with the sync-committee cache replaced since.
C11_Witness ==
    /\ pc = "new"
    /\ trace = <<"fetch_duties", "fetch_proposer_duties", "fetch_attester_duties",
                 "error: attester duties", "fetch_sync_committee_duties">>
    /\ attester_duties = <<1>>
    /\ sync_committee_duties = <<2>>

\* C12: the proposer and the sync-committee request carry the epoch passed
\* to fetch_duties, the attester request that epoch plus one.
C12_RequestEpochs ==
    [][/\ \A e \in 0..MaxEpochArg :
              (CallFetchDuties(e) /\ pc' = "proposer")
                  => /\ request'.op = "get_proposer_duties"
                     /\ request'.epoch = e
                     /\ fd_epoch' = e
       /\ pc' = "attester" =>
              /\ request'.op = "get_attester_duties"
              /\ request'.epoch = fd_epoch' + 1
       /\ pc' = "sync_committee" =>
              /\ request'.op = "get_sync_committee_duties"
              /\ request'.epoch = fd_epoch'
       /\ pc \in {"proposer", "attester"} => fd_epoch' = fd_epoch]_vars

\* The attester request of fetch_duties(1) is pending, for epoch 2.
C12_Witness ==
    /\ pc = "attester"
    /\ fd_epoch = 1
    /\ request.epoch = 2

\* The duties of `data` whose validator_index is a resolved index, in order.
RECURSIVE OwnedDuties(_)
OwnedDuties(data) ==
    IF data = <<>> THEN <<>>
    ELSE IF Head(data) \in Values(public_key_to_index)
         THEN <<Head(data)>> \o OwnedDuties(Tail(data))
         ELSE OwnedDuties(Tail(data))

\* C19: an Ok proposer response replaces proposer_duties by the duties of
\* the response that belong to resolved indices, in response order.
C19_ProposerDutiesReplaced ==
    [][\A r \in ProposerDutyResponses :
           (ProposerDutiesResponse(r) /\ r.ok) => proposer_duties' = OwnedDuties(r.data)]_vars

\* Two owned proposer duties cached in an order only the response gives.
C19_Witness ==
    /\ pc = "attester"
    /\ Len(proposer_duties) = 2
    /\ proposer_duties[1] > proposer_duties[2]

\* ------------------------------------------------- claims on the executors
Range(seq) == {seq[i] : i \in DOMAIN seq}
Count(seq, S) == Cardinality({i \in DOMAIN seq : seq[i] \in S})
BlockPublishCalls == {"publish_block", "publish_blinded_block"}
PublishCalls ==
    BlockPublishCalls \cup {"submit_attestation", "publish_aggregate_and_proofs",
                            "publish_sync_committee_signature"}
FetchCalls ==
    {"produce_block", "get_attestation_data", "get_aggregated_attestation",
     "get_block_root"}
SignSteps ==
    {"sign_randao_reveal", "sign_beacon_block", "sign_blinded_beacon_block",
     "sign_attestation_data", "get_selection_proof", "sign_aggregate_and_proof",
     "sign"}
KeystoreOps == {"propose_block", "make_attestation", "submit_aggregate_and_proof"}
Resolved(i) == i \in DOMAIN validator_index_to_keystore

\* C13: propose_block publishes a full block only through publish_block and
\* a blinded block only through publish_blinded_block; one invocation never
\* issues both calls, issues none before a block is produced, and issues
\* exactly one unless it aborts before publishing.
C13_PublishMatchesShape ==
    \A t \in Tasks :
        LET task == tasks[t] IN
        task.op = "propose_block" =>
            /\ Count(task.events, BlockPublishCalls) <= 1
            /\ task.shape = "none" => Count(task.events, BlockPublishCalls) = 0
            /\ task.shape = "full" => "publish_blinded_block" \notin Range(task.events)
            /\ task.shape = "blinded" => "publish_block" \notin Range(task.events)
            /\ (task.pc = "publish" \/ task.result = "ok") =>
                   Count(task.events, BlockPublishCalls) = 1

\* Two invocations have returned Ok: one published a blinded block, the
\* other a full block.
C13_Witness ==
    /\ tasks["t1"].op = "propose_block" /\ tasks["t1"].result = "ok"
    /\ tasks["t1"].shape = "blinded"
    /\ Last(tasks["t1"].events) = "publish_blinded_block"
    /\ tasks["t2"].op = "propose_block" /\ tasks["t2"].result = "ok"
    /\ tasks["t2"].shape = "full"
    /\ Last(tasks["t2"].events) = "publish_block"

\* C14: propose_block, make_attestation and submit_aggregate_and_proof called
\* with a validator index that has no keystore entry return an error at
\* once: no signature, no network call, no change of the service's state.
C14_UnresolvedIndexFailsFirst ==
    [][\A t \in Tasks :
          (/\ tasks[t] = Idle
           /\ tasks'[t].op \in KeystoreOps
           /\ ~Resolved(tasks'[t].index))
          => /\ tasks'[t].pc = "done"
             /\ tasks'[t].result = "err"
             /\ tasks'[t].failed = "keystore"
             /\ tasks'[t].events = <<>>
             /\ UNCHANGED service]_vars

\* With index 1 resolved, make_attestation and submit_aggregate_and_proof
\* were called for index 3 and have failed on the keystore lookup.
C14_Witness ==
    /\ Resolved(1)
    /\ tasks["t1"].op = "make_attestation" /\ tasks["t1"].index = 3
    /\ tasks["t1"].failed = "keystore" /\ tasks["t1"].events = <<>>
    /\ tasks["t2"].op = "submit_aggregate_and_proof" /\ tasks["t2"].index = 3
    /\ tasks["t2"].failed = "keystore" /\ tasks["t2"].events = <<>>

\* C15: in submit_sync_committee, once the sign of an input index with a
\* keystore fails, nothing is published and the caller gets the error.
C15_FailedSignDiscardsBatch ==
    \A t \in Tasks :
        LET task == tasks[t] IN
        (/\ task.op = "submit_sync_committee"
         /\ \E i \in Range(task.indices) : Resolved(i) /\ i \in task.bad)
        => /\ "publish_sync_committee_signature" \notin Range(task.events)
           /\ task.payload = <<>>
           /\ task.pc = "done"
           /\ task.result = "err"
           /\ task.failed = "sign"

\* The batch [1, 3, 2]: index 1 was signed, the sign of index 2 failed, and
\* the call returned the error after the block root request alone.
C15_Witness ==
    /\ Resolved(1) /\ Resolved(2)
    /\ tasks["t1"].op = "submit_sync_committee"
    /\ tasks["t1"].indices = <<1, 3, 2>>
    /\ tasks["t1"].bad = {2}
    /\ tasks["t1"].events = <<"get_block_root", "sign", "sign">>
    /\ tasks["t1"].result = "err"

\* C16: in submit_sync_committee, when the block root is fetched and no
\* sign fails, the published batch is the input list without the indices
\* that have no keystore: same order, one item per occurrence.
C16_BatchIsResolvedSubsequence ==
    \A t \in Tasks :
        LET task == tasks[t] IN
        (/\ task.op = "submit_sync_committee"
         /\ task.pc \in {"publish", "done"}
         /\ task.failed # "get_block_root"
         /\ \A i \in Range(task.indices) : Resolved(i) => i \notin task.bad)
        => /\ Count(task.events, {"publish_sync_committee_signature"}) = 1
           /\ Last(task.events) = "publish_sync_committee_signature"
           /\ task.payload = SelectSeq(task.indices, Resolved)
           /\ Count(task.events, {"sign"}) = Len(task.payload)

\* [1, 3, 2] was published as [1, 2] and [1, 1] as [1, 1].
C16_Witness ==
    /\ Resolved(1) /\ Resolved(2)
    /\ tasks["t1"].indices = <<1, 3, 2>> /\ tasks["t1"].payload = <<1, 2>>
    /\ tasks["t1"].result = "ok"
    /\ tasks["t2"].indices = <<1, 1>> /\ tasks["t2"].payload = <<1, 1>>
    /\ tasks["t2"].result = "ok"

\* C17: an executor issues its publish or submit call at most once, as its
\* last step and only when no fetch and no sign of the invocation failed;
\* no call is issued twice; a failed step ends the invocation with an error;
\* Ok is returned only after a publish call that did not fail.
C17_PublishOnceAfterAllSteps ==
    \A t \in Tasks :
        LET task == tasks[t] IN
        /\ Count(task.events, PublishCalls) <= 1
        /\ \A call \in PublishCalls \cup FetchCalls : Count(task.events, {call}) <= 1
        /\ Count(task.events, PublishCalls) = 1 =>
               /\ Last(task.events) \in PublishCalls
               /\ task.failed \notin FetchCalls \cup SignSteps \cup {"keystore"}
        /\ task.failed # "none" => task.pc = "done" /\ task.result = "err"
        /\ task.result = "ok" =>
               /\ task.pc = "done"
               /\ task.failed = "none"
               /\ Count(task.events, PublishCalls) = 1

\* One invocation returned the error of its publish call, issued once;
\* another returned the error of a sign step and published nothing.
C17_Witness ==
    /\ tasks["t1"].op = "make_attestation"
    /\ tasks["t1"].failed = "submit_attestation"
    /\ tasks["t1"].result = "err"
    /\ Count(tasks["t1"].events, PublishCalls) = 1
    /\ tasks["t2"].op = "submit_aggregate_and_proof"
    /\ tasks["t2"].failed = "sign_aggregate_and_proof"
    /\ tasks["t2"].result = "err"
    /\ Count(tasks["t2"].events, PublishCalls) = 0

\* C18: no step of an executor changes public_key_to_index,
\* validator_index_to_keystore, active_validator_count or a duty cache,
\* whatever the other executor is doing; they change only when a refresh
\* gets its response.
C18_ExecutorsOnlyRead ==
    [][/\ tasks' # tasks => UNCHANGED <<registry, duties>>
       /\ ~UNCHANGED <<registry, duties>> => Refreshed /\ UNCHANGED tasks]_vars

\* Both executors are in flight, one of them past its first response, on a
\* registry that a refresh has filled.
C18_Witness ==
    /\ active_validator_count = 2
    /\ tasks["t1"].op = "propose_block" /\ tasks["t1"].pc = "publish"
    /\ tasks["t2"].op = "submit_sync_committee" /\ tasks["t2"].pc = "block_root"

\* C20 as stated: the selection proof comes before the
\* get_aggregated_attestation request, so a failed selection proof leaves
\* no network call behind.
C20_ProofBeforeFetch ==
    \A t \in Tasks :
        LET task == tasks[t] IN
        (task.op = "submit_aggregate_and_proof" /\ task.failed = "get_selection_proof")
        => Count(task.events, FetchCalls \cup PublishCalls) = 0

\* C20: submit_aggregate_and_proof requests the aggregated attestation right
\* after the keystore lookup and computes the selection proof only once
\* that request has succeeded; a failed selection proof ends the invocation
\* with an error after that one network call, nothing published.
C20_FetchBeforeProof ==
    \A t \in Tasks :
        LET task == tasks[t] IN
        task.op = "submit_aggregate_and_proof" =>
            /\ task.events # <<>> => task.events[1] = "get_aggregated_attestation"
            /\ "get_selection_proof" \in Range(task.events) =>
                   /\ task.events[2] = "get_selection_proof"
                   /\ task.failed # "get_aggregated_attestation"
            /\ task.failed = "get_selection_proof" =>
                   /\ task.events = <<"get_aggregated_attestation", "get_selection_proof">>
                   /\ task.result = "err"

\* The selection proof failed after the aggregated attestation was fetched.
C20_Witness ==
    \E t \in Tasks :
        /\ tasks[t].op = "submit_aggregate_and_proof"
        /\ tasks[t].failed = "get_selection_proof"
        /\ tasks[t].events = <<"get_aggregated_attestation", "get_selection_proof">>

=============================================================================
